---- MODULE Spec2Model ----
(***************************************************************************)
(* Model of extract_form16a_data_final (src/form16_app.py, lines 39-139):  *)
(* the segmentation of a merged Form 16A document into certificate blocks, *)
(* the extraction of each block's header and of its payment and challan    *)
(* tables, and the merge of the two into the final records.                *)
(*                                                                         *)
(* Strings the code converts (cells, serial numbers, quarter tokens, the   *)
(* rendered rate) are sequences of one-character strings, so that strip,   *)
(* isdigit, replace, lstrip, float and the f-string are computed.  Python's *)
(* None is the one-element sequence None.  A float is a record             *)
(* [kind, cents]: a finite number in hundredths, or nan, or inf.           *)
(***************************************************************************)
EXTENDS Integers, Sequences, FiniteSets, TLC

VARIABLES
    pdf,                 \* the document: one extracted text per page
    pdf_open,            \* the with-statement's resource is open
    pc,                  \* position in the function
    i,                   \* page index of the classification loop (0-based)
    start_page_indices,  \* 0-based indices of certificate start pages
    bi,                  \* index of the block loop (0-based)
    end_index,           \* end of the current block (exclusive)
    page_num,            \* page of the current block being read
    tables_left,         \* tables of the current page not yet iterated
    header,              \* deductor_name, deductee_name, pan, quarter
    payments_dict,       \* ordered dict: serial -> amount_paid, payment_date
    challans_dict,       \* ordered dict: serial -> tds_amount
    all_records,         \* the rows of the returned frame
    result,              \* "none", "empty" (line 59) or "frame" (line 139)
    st_error,            \* st.error was called (line 58)
    raised_in,           \* where an uncaught exception left the function
    history,             \* per merged block: its page range and its number of rows
    block_headers,       \* header_row_text of each table read in this block
    written              \* [dict, key, page] of each entry stored in this block

vars == <<pdf, pdf_open, pc, i, start_page_indices, bi, end_index, page_num,
          tables_left, header, payments_dict, challans_dict, all_records,
          result, st_error, raised_in, history, block_headers, written>>

-----------------------------------------------------------------------------
(* Bounds *)

MaxPages == 2
MaxTables == 1
MaxRows == 2

-----------------------------------------------------------------------------
(* Python values *)

None == <<"<None>">>

Digit == <<"0", "1", "2", "3", "4", "5", "6", "7", "8", "9">>

IsDigitChar(c) == \E d \in 1..Len(Digit) : Digit[d] = c

DigitValue(c) == (CHOOSE d \in 1..Len(Digit) : Digit[d] = c) - 1

FNum(c) == [kind |-> "num", cents |-> c]
FNaN == [kind |-> "nan", cents |-> 0]
FInf == [kind |-> "inf", cents |-> 0]
ValueError == [kind |-> "ValueError", cents |-> 0]

-----------------------------------------------------------------------------
(* str methods used by the code *)

Whitespace == {" "}

RECURSIVE lstrip(_, _)
lstrip(s, chars) ==
    IF s = <<>> \/ Head(s) \notin chars THEN s ELSE lstrip(Tail(s), chars)

RECURSIVE rstrip(_, _)
rstrip(s, chars) ==
    IF s = <<>> \/ s[Len(s)] \notin chars THEN s
    ELSE rstrip(SubSeq(s, 1, Len(s) - 1), chars)

strip(s) == rstrip(lstrip(s, Whitespace), Whitespace)

isdigit(s) == s # <<>> /\ \A k \in 1..Len(s) : IsDigitChar(s[k])

RECURSIVE replace(_, _, _)
replace(s, old, new) ==
    IF s = <<>> THEN <<>>
    ELSE (IF Head(s) = old THEN new ELSE <<Head(s)>>) \o replace(Tail(s), old, new)

RECURSIVE DigitsValue(_)
DigitsValue(ds) ==
    IF ds = <<>> THEN 0
    ELSE DigitsValue(SubSeq(ds, 1, Len(ds) - 1)) * 10 + DigitValue(ds[Len(ds)])

RECURSIVE str(_)
str(n) ==
    IF n < 10 THEN <<Digit[n + 1]>> ELSE str(n \div 10) \o <<Digit[(n % 10) + 1]>>

-----------------------------------------------------------------------------
(* float(): surrounding whitespace is ignored; "nan" and "inf" are accepted; *)
(* otherwise an unsigned decimal with at most two fractional digits (the     *)
(* unit of the model is 1/100; Cells holds no finer amount, no sign and no   *)
(* exponent).  Anything else is a ValueError.                                *)

float(s) ==
    LET t == strip(s)
        dots == {k \in 1..Len(t) : t[k] = "."}
        dot == IF dots = {} THEN Len(t) + 1 ELSE CHOOSE k \in dots : TRUE
        ip == SubSeq(t, 1, dot - 1)
        fp == SubSeq(t, dot + 1, Len(t))
        alldigits(x) == \A k \in 1..Len(x) : IsDigitChar(x[k])
    IN  IF t = <<"n", "a", "n">> THEN FNaN
        ELSE IF t = <<"i", "n", "f">> THEN FInf
        ELSE IF /\ Cardinality(dots) <= 1
                /\ alldigits(ip) /\ alldigits(fp)
                /\ Len(ip) + Len(fp) >= 1
                /\ Len(fp) <= 2
             THEN FNum(DigitsValue(ip) * 100
                       + (IF Len(fp) = 1 THEN DigitsValue(fp) * 10 ELSE DigitsValue(fp)))
        ELSE ValueError

(* x > 0 on floats: nan compares false, inf is greater. *)
GreaterThanZero(x) == x.kind = "inf" \/ (x.kind = "num" /\ x.cents > 0)

(* floor(n * 10^digits / d) and the remainder, by long division (n >= 0, d > 0) *)
RECURSIVE LongDivision(_, _, _, _)
LongDivision(q, r, d, digits) ==
    IF digits = 0 THEN [q |-> q, r |-> r]
    ELSE LongDivision(q * 10 + (r * 10) \div d, (r * 10) % d, d, digits - 1)

(* round(n * 10^digits / d) to the nearest integer, ties to even *)
RoundHalfEven(n, d, digits) ==
    LET x == LongDivision(n \div d, n % d, d, digits)
    IN  IF 2 * x.r < d THEN x.q
        ELSE IF 2 * x.r > d THEN x.q + 1
        ELSE IF x.q % 2 = 0 THEN x.q ELSE x.q + 1

(* round((tds / amount) * 100, 2) for amount > 0, in hundredths of a percent *)
RoundedRate(tds, amount) ==
    IF tds.kind = "nan" THEN FNaN
    ELSE IF amount.kind = "inf"
         THEN (IF tds.kind = "inf" THEN FNaN ELSE FNum(0))
    ELSE IF tds.kind = "inf" THEN FInf
    ELSE FNum(RoundHalfEven(tds.cents, amount.cents, 4))

(* line 124 *)
Rate(tds, amount) ==
    IF GreaterThanZero(amount) THEN RoundedRate(tds, amount) ELSE FNum(0)

(* f"{rate:.2f}" *)
Format2f(x) ==
    IF x.kind = "nan" THEN <<"n", "a", "n">>
    ELSE IF x.kind = "inf" THEN <<"i", "n", "f">>
    ELSE str(x.cents \div 100) \o <<".">>
         \o <<Digit[((x.cents % 100) \div 10) + 1], Digit[(x.cents % 10) + 1]>>

-----------------------------------------------------------------------------
(* The document reader's primitives: what a page can return. *)

CERT == "Certificate under section 203"
FORM == "FORM NO. 16A"
PAYLINE == "50000.00 194C 01-04-2023"
DEPLINE == "5000.00 0510001 01-04-2023"

(* page.extract_text(): None, or the text as the sequence of its phrases:  *)
(* a page without text, a certificate's first page, and a continuation page *)
(* that repeats the form number above two transaction lines.                *)
PageTexts ==
    { None, <<CERT, FORM>>, <<FORM, PAYLINE, DEPLINE>> }

(* text = page.extract_text(...) or "" *)
TextOf(t) == IF t = None THEN <<>> ELSE t

(* phrase in text *)
In(phrase, text) == \E k \in 1..Len(text) : text[k] = phrase

(* line 54 with "or" for "and" *)
IsStartPage_either(t) == In(CERT, TextOf(t)) \/ In(FORM, TextOf(t))

(* line 54 *)
IsStartPage(t) == In(CERT, TextOf(t)) /\ In(FORM, TextOf(t))

Unknown == <<"U", "n", "k", "n", "o", "w", "n">>
ACME == <<"A", "C", "M", "E">>
JOHN == <<"J", "O", "H", "N">>
PANCODE == <<"A", "B", "C", "D", "E", "1", "2", "3", "4", "F">>

(* What the seven re.search calls of lines 70-74 return on a header text:   *)
(* None or group(1).  The first name rule captures a whole line, the second *)
(* the text between two labels.                                             *)
HeaderTexts ==
    [ deductor1 : {None, <<"A", "C", "M", "E", " ">>}, deductor2 : {None, ACME},
      deductee1 : {None, <<" ", "J", "O", "H", "N">>}, deductee2 : {None, JOHN},
      pan1 : {None, PANCODE}, pan2 : {None, PANCODE},
      quarter : {None, <<"Q", "2">>, <<"0", "3">>} ]

(* a or b, on match objects *)
Or(a, b) == IF a # None THEN a ELSE b

(* lines 70-75: the header fields, or the AttributeError of None.group *)
ExtractHeader(h) ==
    LET deductor == Or(h.deductor1, h.deductor2)
        deductee == Or(h.deductee1, h.deductee2)
        pan_match == Or(h.pan1, h.pan2)
    IN  IF deductor = None \/ deductee = None
        THEN [exc |-> "AttributeError", deductor_name |-> None, deductee_name |-> None,
              pan |-> None, quarter |-> None]
        ELSE [exc |-> "none",
              deductor_name |-> strip(deductor),
              deductee_name |-> strip(deductee),
              pan |-> IF pan_match # None THEN pan_match ELSE Unknown,
              quarter |-> IF h.quarter # None
                          THEN <<"Q">> \o lstrip(h.quarter, {"0"}) ELSE Unknown]

NoHeader ==
    [exc |-> "none", deductor_name |-> None, deductee_name |-> None,
     pan |-> None, quarter |-> None]

(* Labels of a table's header row; "" stands for an empty or None cell. *)
AMOUNT_PAID == "Amount paid/credited"
DATE_OF_PAYMENT == "Date of payment/credit"
TAX_DEPOSITED == "Tax deposited in respect"
BSR_CODE == "BSR Code"

HeaderRows ==
    { <<"Sl No", AMOUNT_PAID, "", "", DATE_OF_PAYMENT>>,
      <<"Sl No", TAX_DEPOSITED, BSR_CODE>>,
      <<"Sl No", AMOUNT_PAID>> }

DATE1 == <<"0", "1", "-", "0", "4", "-", "2", "0", "2", "3">>
DATE2 == <<"0", "2", "-", "0", "4", "-", "2", "0", "2", "3">>

(* Data rows: cells are strings or None. *)
Rows ==
    { <<<<"1">>, <<"5", "0", "0", "0", "0", ".", "0", "0">>, <<>>, <<>>, DATE1>>,
      <<<<"1">>, <<"5", "0", "0", "0", ".", "0", "0">>>>,
      <<<<" ", "2", " ">>, <<"0">>, <<>>, <<>>, DATE2>>,
      <<<<"2">>, <<"1", ",", "2", "5", "0", ".", "0", "0">>>>,
      <<<<"1">>, <<"a", "b", "c">>, <<>>, <<>>, DATE1>>,
      <<None, <<"5", "0", "0", "0", ".", "0", "0">>, <<>>, <<>>, DATE1>>,
      <<<<"2">>, None>>,
      <<<<"x", "1">>, <<"5", "0", "0", "0", ".", "0", "0">>, <<>>, <<>>, DATE1>>,
      <<<<"1">>, <<"n", "a", "n">>>> }

SeqsUpTo(S, n) == UNION {[1..k -> S] : k \in 0..n}

(* page.extract_tables() elements: an empty table, a table whose first row *)
(* is empty, or a header row followed by data rows.                         *)
Tables ==
    { <<>>, << <<>> >> }
    \cup {<<h>> \o rows : h \in HeaderRows, rows \in SeqsUpTo(Rows, MaxRows)}

-----------------------------------------------------------------------------
(* dict, in insertion order: a sequence of [key, val] with distinct keys *)

Keys(d) == {d[k].key : k \in 1..Len(d)}

(* d[key] = val *)
DictSet(d, key, val) ==
    IF key \in Keys(d)
    THEN [k \in 1..Len(d) |-> IF d[k].key = key THEN [key |-> key, val |-> val] ELSE d[k]]
    ELSE Append(d, [key |-> key, val |-> val])

(* d.get(key, default) *)
DictGet(d, key, default) ==
    IF key \in Keys(d) THEN (d[CHOOSE k \in 1..Len(d) : d[k].key = key]).val ELSE default

-----------------------------------------------------------------------------
(* Table rows.  A row is indexed from 0 in the code: row[n] is row[n + 1]   *)
(* here.  The result names the exception the row's try block raised:        *)
(* ValueError and IndexError are caught (line 102, 116), others are not.    *)

(* lines 96-101 *)
PaymentRow(d, row) ==
    IF Len(row) < 1 THEN [exc |-> "IndexError", dict |-> d]
    ELSE IF row[1] = None THEN [exc |-> "AttributeError", dict |-> d]
    ELSE LET sl_no == strip(row[1])
         IN  IF ~(sl_no # <<>> /\ isdigit(sl_no)) THEN [exc |-> "none", dict |-> d]
             ELSE IF Len(row) < 2 THEN [exc |-> "IndexError", dict |-> d]
             ELSE IF row[2] = None THEN [exc |-> "AttributeError", dict |-> d]
             ELSE LET amount_paid == float(replace(row[2], ",", <<>>))
                  IN  IF amount_paid = ValueError THEN [exc |-> "ValueError", dict |-> d]
                      ELSE IF Len(row) < 5 THEN [exc |-> "IndexError", dict |-> d]
                      ELSE [exc |-> "none",
                            dict |-> DictSet(d, sl_no, [amount_paid |-> amount_paid,
                                                         payment_date |-> row[5]])]

(* lines 109-115 *)
ChallanRow(d, row) ==
    IF Len(row) < 1 THEN [exc |-> "IndexError", dict |-> d]
    ELSE IF row[1] = None THEN [exc |-> "AttributeError", dict |-> d]
    ELSE LET sl_no == strip(row[1])
         IN  IF ~(sl_no # <<>> /\ isdigit(sl_no)) THEN [exc |-> "none", dict |-> d]
             ELSE IF Len(row) < 2 THEN [exc |-> "IndexError", dict |-> d]
             ELSE LET tax_val_str == IF row[2] = None \/ row[2] = <<>> THEN <<"0">> ELSE row[2]
                      tds_amount == float(replace(tax_val_str, ",", <<>>))
                  IN  IF tds_amount = ValueError THEN [exc |-> "ValueError", dict |-> d]
                      ELSE [exc |-> "none",
                            dict |-> DictSet(d, sl_no, [tds_amount |-> tds_amount])]

Caught(exc) == exc \in {"none", "ValueError", "IndexError"}

(* lines 94-103: for row in table[1:] *)
RECURSIVE PaymentRows(_, _)
PaymentRows(d, rows) ==
    IF rows = <<>> THEN [exc |-> "none", dict |-> d]
    ELSE LET r == PaymentRow(d, Head(rows))
         IN  IF Caught(r.exc) THEN PaymentRows(r.dict, Tail(rows)) ELSE r

(* lines 107-117 *)
RECURSIVE ChallanRows(_, _)
ChallanRows(d, rows) ==
    IF rows = <<>> THEN [exc |-> "none", dict |-> d]
    ELSE LET r == ChallanRow(d, Head(rows))
         IN  IF Caught(r.exc) THEN ChallanRows(r.dict, Tail(rows)) ELSE r

(* line 90: ' '.join(filter(None, table[0])) *)
HeaderRowText(row0) == SelectSeq(row0, LAMBDA c : c # "")

(* line 93 with "or" for "and" *)
IsPaymentsTable_either(header_row_text) ==
    In(AMOUNT_PAID, header_row_text) \/ In(DATE_OF_PAYMENT, header_row_text)

(* line 93 *)
IsPaymentsTable(header_row_text) ==
    In(AMOUNT_PAID, header_row_text) /\ In(DATE_OF_PAYMENT, header_row_text)

(* line 106 *)
IsChallansTable(header_row_text) ==
    In(TAX_DEPOSITED, header_row_text) /\ In(BSR_CODE, header_row_text)

(* lines 89-117: the body of "for table in tables" *)
ExtractTableRows(table, payments, challans) ==
    IF table = <<>> \/ table[1] = <<>>
    THEN [exc |-> "none", payments |-> payments, challans |-> challans]
    ELSE LET text == HeaderRowText(table[1])
             p == IF IsPaymentsTable(text) THEN PaymentRows(payments, Tail(table))
                  ELSE [exc |-> "none", dict |-> payments]
             c == IF p.exc = "none" /\ IsChallansTable(text)
                  THEN ChallanRows(challans, Tail(table))
                  ELSE [exc |-> "none", dict |-> challans]
         IN  [exc |-> IF p.exc # "none" THEN p.exc ELSE c.exc,
              payments |-> p.dict, challans |-> c.dict]

(* lines 120-137: one record per item of payments_dict *)
MergeRecord(h, payments, challans, k) ==
    LET payment_info == payments[k].val
        challan_info == DictGet(challans, payments[k].key, [tds_amount |-> FNum(0)])
        rate == Rate(challan_info.tds_amount, payment_info.amount_paid)
    IN  [Quarter |-> h.quarter,
         DateOfDeduction |-> payment_info.payment_date,
         DeducteeName |-> h.deductee_name,
         PAN |-> h.pan,
         TaxableValue |-> payment_info.amount_paid,
         Rate |-> Format2f(rate),
         TDSAmount |-> challan_info.tds_amount,
         DeductorName |-> h.deductor_name]

(* lines 120-121 as an inner join: only the serials that have a challan *)
MergeRecords_inner(h, payments, challans) ==
    LET ks == SelectSeq([k \in 1..Len(payments) |-> k],
                        LAMBDA k : payments[k].key \in Keys(challans))
    IN  [j \in 1..Len(ks) |-> MergeRecord(h, payments, challans, ks[j])]

MergeRecords(h, payments, challans) ==
    [k \in 1..Len(payments) |-> MergeRecord(h, payments, challans, k)]

-----------------------------------------------------------------------------
(* extract_form16a_data_final *)

Documents == UNION {[1..n -> PageTexts] : n \in 1..MaxPages}

(* lines 47-50: all_records = [], the document is opened *)
Init ==
    /\ pdf \in Documents
    /\ pdf_open = TRUE
    /\ pc = "classify"
    /\ i = 0
    /\ start_page_indices = <<>>
    /\ bi = 0
    /\ end_index = 0
    /\ page_num = 0
    /\ tables_left = 0
    /\ header = NoHeader
    /\ payments_dict = <<>>
    /\ challans_dict = <<>>
    /\ all_records = <<>>
    /\ result = "none"
    /\ st_error = FALSE
    /\ raised_in = "none"
    /\ history = <<>>
    /\ block_headers = {}
    /\ written = {}

(* the document closed after the last statement only, not by a context manager *)
WithExit_onReturnOnly(exc) == exc # "none"

(* With the with statement of line 48, the document is closed when the block *)
(* is left, by a return or by an exception: pdf_open afterwards.             *)
WithExit(exc) == FALSE

(* the dicts created once, before the block loop *)
FreshDict_kept(previous) == previous

(* lines 78-79: payments_dict = {}, challans_dict = {} *)
FreshDict(previous) == <<>>

(* lines 51-55: one iteration of the classification loop *)
ClassifyPage ==
    /\ pc = "classify"
    /\ i < Len(pdf)
    /\ start_page_indices' =
           IF IsStartPage(pdf[i + 1]) THEN Append(start_page_indices, i)
           ELSE start_page_indices
    /\ i' = i + 1
    /\ pc' = IF i + 1 < Len(pdf) THEN "classify" ELSE "block"
    /\ UNCHANGED <<pdf, pdf_open, bi, end_index, page_num, tables_left, header,
                   payments_dict, challans_dict, all_records, result, st_error,
                   raised_in, history, block_headers, written>>

(* lines 57-59: no start page; the return leaves the with block *)
NoStartPages ==
    /\ pc = "block"
    /\ start_page_indices = <<>>
    /\ st_error' = TRUE
    /\ result' = "empty"
    /\ pdf_open' = WithExit("none")
    /\ pc' = "done"
    /\ UNCHANGED <<pdf, i, start_page_indices, bi, end_index, page_num, tables_left,
                   header, payments_dict, challans_dict, all_records, raised_in,
                   history, block_headers, written>>

(* line 63 without the next start index *)
EndIndex_toEnd(starts, b, page_count) == page_count

(* line 63 *)
EndIndex(starts, b, page_count) ==
    IF b + 1 < Len(starts) THEN starts[b + 2] ELSE page_count

(* lines 62-79: a block begins; its header is read from its first page *)
BeginBlock ==
    /\ pc = "block"
    /\ bi < Len(start_page_indices)
    /\ \E h \in HeaderTexts :
         LET hdr == ExtractHeader(h)
         IN  /\ end_index' = EndIndex(start_page_indices, bi, Len(pdf))
             /\ IF hdr.exc # "none"
                THEN /\ pc' = "raised"
                     /\ raised_in' = "header"
                     /\ pdf_open' = WithExit(hdr.exc)
                     /\ UNCHANGED <<header, payments_dict, challans_dict, page_num,
                                    block_headers, written>>
                ELSE /\ header' = hdr
                     /\ payments_dict' = FreshDict(payments_dict)
                     /\ challans_dict' = FreshDict(challans_dict)
                     /\ block_headers' = {}
                     /\ written' = {}
                     /\ page_num' = start_page_indices[bi + 1]
                     /\ pc' = "page"
                     /\ UNCHANGED <<raised_in, pdf_open>>
    /\ UNCHANGED <<pdf, i, start_page_indices, bi, tables_left, all_records, result,
                   st_error, history>>

(* lines 81-86: the tables of the next page of the block are extracted *)
OpenPage ==
    /\ pc = "page"
    /\ page_num < end_index
    /\ \E n \in 0..MaxTables :
         /\ tables_left' = n
         /\ IF n = 0
            THEN page_num' = page_num + 1 /\ pc' = "page"
            ELSE page_num' = page_num /\ pc' = "table"
    /\ UNCHANGED <<pdf, pdf_open, i, start_page_indices, bi, end_index, header,
                   payments_dict, challans_dict, all_records, result, st_error,
                   raised_in, history, block_headers, written>>

(* The keys a table's rows store into a dict that held the keys before *)
Stored(name, before, after, page) ==
    {[dict |-> name, key |-> after[k].key, page |-> page] :
        k \in {j \in 1..Len(after) : after[j].key \notin Keys(before)
                                       \/ after[j] # before[j]}}

(* lines 88-117: one iteration of "for table in tables" *)
ExtractTable ==
    /\ pc = "table"
    /\ tables_left > 0
    /\ \E table \in Tables :
         LET r == ExtractTableRows(table, payments_dict, challans_dict)
         IN  /\ block_headers' =
                    IF table = <<>> \/ table[1] = <<>> THEN block_headers
                    ELSE block_headers \cup {HeaderRowText(table[1])}
             /\ payments_dict' = r.payments
             /\ challans_dict' = r.challans
             /\ written' = written
                    \cup Stored("payments", payments_dict, r.payments, page_num)
                    \cup Stored("challans", challans_dict, r.challans, page_num)
             /\ IF r.exc # "none"
                THEN /\ pc' = "raised"
                     /\ raised_in' = "row"
                     /\ pdf_open' = WithExit(r.exc)
                     /\ UNCHANGED <<tables_left, page_num>>
                ELSE /\ tables_left' = tables_left - 1
                     /\ IF tables_left = 1
                        THEN page_num' = page_num + 1 /\ pc' = "page"
                        ELSE page_num' = page_num /\ pc' = "table"
                     /\ UNCHANGED <<raised_in, pdf_open>>
    /\ UNCHANGED <<pdf, i, start_page_indices, bi, end_index, header, all_records,
                   result, st_error, history>>

(* lines 119-137: the block's pages are read; its records are appended *)
Merge ==
    /\ pc = "page"
    /\ page_num = end_index
    /\ LET rows == MergeRecords(header, payments_dict, challans_dict)
       IN  /\ all_records' = all_records \o rows
           /\ history' = Append(history,
                  [start |-> start_page_indices[bi + 1], end |-> end_index,
                   rows |-> Len(rows)])
    /\ bi' = bi + 1
    /\ pc' = "block"
    /\ UNCHANGED <<pdf, pdf_open, i, start_page_indices, end_index, page_num,
                   tables_left, header, payments_dict, challans_dict, result,
                   st_error, raised_in, block_headers, written>>

(* lines 62, 139: the block loop ends, the with block closes, the frame is returned *)
Return ==
    /\ pc = "block"
    /\ start_page_indices # <<>>
    /\ bi = Len(start_page_indices)
    /\ pdf_open' = WithExit("none")
    /\ result' = "frame"
    /\ pc' = "done"
    /\ UNCHANGED <<pdf, i, start_page_indices, bi, end_index, page_num, tables_left,
                   header, payments_dict, challans_dict, all_records, st_error,
                   raised_in, history, block_headers, written>>

Next ==
    \/ ClassifyPage
    \/ NoStartPages
    \/ BeginBlock
    \/ OpenPage
    \/ ExtractTable
    \/ Merge
    \/ Return

Spec == Init /\ [][Next]_vars

-----------------------------------------------------------------------------
(* Vocabulary of the properties, stated on the state alone *)

HasPhrase(p, phrase) ==
    pdf[p] # None /\ \E k \in 1..Len(pdf[p]) : pdf[p][k] = phrase

MarkerPage(p) == HasPhrase(p, CERT) /\ HasPhrase(p, FORM)

LinePatternPage(p) == HasPhrase(p, PAYLINE) /\ HasPhrase(p, DEPLINE)

Terminated == pc \in {"done", "raised"}

(* a block has been merged and no later block has begun: the dicts, the *)
(* table headers and the stored keys are those of block bi              *)
BlockMerged == pc \in {"block", "done"} /\ bi >= 1 /\ Len(history) = bi

LastRows == history[bi].rows

LastRecord(k) == all_records[Len(all_records) - LastRows + k]

Classified(text) ==
    \/ (\E k \in 1..Len(text) : text[k] = AMOUNT_PAID)
         /\ (\E k \in 1..Len(text) : text[k] = DATE_OF_PAYMENT)
    \/ (\E k \in 1..Len(text) : text[k] = TAX_DEPOSITED)
         /\ (\E k \in 1..Len(text) : text[k] = BSR_CODE)

NoClassifiedTable == \A text \in block_headers : ~Classified(text)

StoredKeys(name) == {w.key : w \in {x \in written : x.dict = name}}

TwoDecimals(s) ==
    /\ Len(s) >= 4
    /\ s[Len(s) - 2] = "."
    /\ \A k \in (1..Len(s)) \ {Len(s) - 2} : IsDigitChar(s[k])

-----------------------------------------------------------------------------
(* C1: a header field that no rule matches takes "Unknown" and never aborts *)
(* the extraction: no run ends with an exception raised by the header       *)
(* extraction.                                                              *)
C1_HeaderNeverAborts == raised_in # "header"

(* C2: once a block is merged, the number of records it produced is the     *)
(* number of distinct serial keys of its payments; the k-th record carries  *)
(* the k-th payment's amount and date and the deposit amount of the challan *)
(* with the same key, or 0 when there is none; keys found only among the    *)
(* challans produce no record.                                              *)
C2_RowsPerPaymentKey ==
    BlockMerged =>
        /\ LastRows = Cardinality(Keys(payments_dict))
        /\ LastRows = Len(payments_dict)
        /\ LastRows <= Len(all_records)
        /\ \A k \in 1..LastRows :
             LET key == payments_dict[k].key
             IN  /\ LastRecord(k).TaxableValue = payments_dict[k].val.amount_paid
                 /\ LastRecord(k).DateOfDeduction = payments_dict[k].val.payment_date
                 /\ IF key \in Keys(challans_dict)
                    THEN \E j \in 1..Len(challans_dict) :
                            /\ challans_dict[j].key = key
                            /\ LastRecord(k).TDSAmount = challans_dict[j].val.tds_amount
                    ELSE LastRecord(k).TDSAmount = FNum(0)

(* C2 witness: a merged block with a payment that has no challan and a *)
(* challan that has no payment                                         *)
C2_Witness ==
    /\ BlockMerged
    /\ LastRows >= 1
    /\ Keys(payments_dict) \ Keys(challans_dict) # {}
    /\ Keys(challans_dict) \ Keys(payments_dict) # {}

(* C3: every record's rate is rendered with exactly two decimal digits; it  *)
(* is "0.00" when the payment amount is 0 or no deposit matches, and        *)
(* "10.00" for amount 50000.00 with deposit 5000.00.                        *)
C3_RateTwoDecimals ==
    \A k \in 1..Len(all_records) :
        LET rec == all_records[k]
        IN  /\ TwoDecimals(rec.Rate)
            /\ rec.TaxableValue = FNum(0) => rec.Rate = <<"0", ".", "0", "0">>
            /\ rec.TDSAmount = FNum(0) => rec.Rate = <<"0", ".", "0", "0">>
            /\ (rec.TaxableValue = FNum(5000000) /\ rec.TDSAmount = FNum(500000))
                   => rec.Rate = <<"1", "0", ".", "0", "0">>

(* C3, restricted to records whose amounts are finite numbers: the rate is *)
(* rendered with two decimal digits, and is "0.00" when the payment       *)
(* amount is 0.                                                           *)
C3_FiniteRates ==
    \A k \in 1..Len(all_records) :
        LET rec == all_records[k]
        IN  (rec.TaxableValue.kind = "num" /\ rec.TDSAmount.kind = "num") =>
                /\ TwoDecimals(rec.Rate)
                /\ rec.TaxableValue = FNum(0) => rec.Rate = <<"0", ".", "0", "0">>

(* C4: when no page holds both the certificate marker and the form number,  *)
(* the function never raises, never extracts a header or a table, and ends  *)
(* by returning the empty frame after the "no start pages" diagnostic, with *)
(* the document closed.                                                     *)
C4_NoCertificates ==
    (\A p \in 1..Len(pdf) : ~MarkerPage(p)) =>
        /\ pc \in {"classify", "block", "done"}
        /\ raised_in = "none"
        /\ header = NoHeader
        /\ block_headers = {}
        /\ history = <<>>
        /\ all_records = <<>>
        /\ pc = "block" => start_page_indices = <<>>
        /\ pc = "done" => (result = "empty" /\ st_error /\ ~pdf_open)
        /\ pc # "done" => (result = "none" /\ ~st_error)

(* C4 witness: the early return on a document with a page without text and *)
(* a page that holds the form number alone                                 *)
C4_Witness ==
    /\ pc = "done"
    /\ result = "empty"
    /\ \E p \in 1..Len(pdf) : pdf[p] = None
    /\ \E p \in 1..Len(pdf) : HasPhrase(p, FORM) /\ ~HasPhrase(p, CERT)

(* C5: the start indices are the marker pages in page order; block k runs   *)
(* from start k to start k+1, the last one to the page count; blocks are    *)
(* non-empty and do not overlap; after a normal return there is one block   *)
(* per start index, every page from the first start on lies in exactly one  *)
(* block and the pages before it in none.                                   *)
C5_Blocks ==
    LET starts == start_page_indices
        ExpectedEnd(k) == IF k < Len(starts) THEN starts[k + 1] ELSE Len(pdf)
        InBlock(q, k) == history[k].start <= q /\ q < history[k].end
    IN  /\ pc # "classify" =>
              /\ {starts[k] : k \in 1..Len(starts)} = {p - 1 : p \in {q \in 1..Len(pdf) : MarkerPage(q)}}
              /\ \A k \in 1..(Len(starts) - 1) : starts[k] < starts[k + 1]
        /\ Len(history) <= Len(starts)
        /\ \A k \in 1..Len(history) :
              /\ history[k].start = starts[k]
              /\ history[k].end = ExpectedEnd(k)
              /\ history[k].start < history[k].end
        /\ \A k \in 1..Len(history) : \A l \in 1..Len(history) :
              k < l => history[k].end <= history[l].start
        /\ pc \in {"page", "table"} =>
              /\ end_index = ExpectedEnd(bi + 1)
              /\ starts[bi + 1] <= page_num /\ page_num <= end_index
        /\ result = "frame" =>
              /\ Len(history) = Len(starts)
              /\ \A q \in 0..(Len(pdf) - 1) :
                    Cardinality({k \in 1..Len(history) : InBlock(q, k)})
                        = IF q >= starts[1] THEN 1 ELSE 0

(* C5 witness: a normal return after two blocks *)
C5_Witness == result = "frame" /\ Len(history) = 2 /\ history[1].end = history[2].start

(* C6: the Quarter of every record is Q1, Q2, Q3, Q4 or "Unknown". *)
C6_QuarterCanonical ==
    \A k \in 1..Len(all_records) :
        all_records[k].Quarter \in {<<"Q", "1">>, <<"Q", "2">>, <<"Q", "3">>, <<"Q", "4">>, Unknown}

C8_ClosedOnEveryExit ==
    /\ Terminated => ~pdf_open
    /\ ~Terminated => pdf_open

(* C8 witness: an exception raised by a table after the block had stored *)
(* an entry                                                              *)
C8_Witness ==
    /\ pc = "raised"
    /\ raised_in = "row"
    /\ payments_dict # <<>>
    /\ ~pdf_open

(* C9: a malformed row is skipped and never aborts the extraction: no run *)
(* ends with an exception raised by a table row.                          *)
C9_RowsNeverAbort == raised_in # "row"

(* C10: the keys of the two dicts are exactly the keys stored from tables   *)
(* of the current block, on pages of that block; the records of a merged    *)
(* block are as many as the payment keys stored in it.                      *)
C10_BlockScoped ==
    /\ Keys(payments_dict) = StoredKeys("payments")
    /\ Keys(challans_dict) = StoredKeys("challans")
    /\ pc \in {"page", "table"} =>
          \A w \in written : start_page_indices[bi + 1] <= w.page /\ w.page < end_index
    /\ BlockMerged =>
          /\ \A w \in written : history[bi].start <= w.page /\ w.page < history[bi].end
          /\ LastRows = Cardinality(StoredKeys("payments"))

(* C10 witness: a payment joined with the challan of the same key stored *)
(* from a later page of the block                                        *)
C10_Witness ==
    /\ BlockMerged
    /\ LastRows >= 1
    /\ \E wp \in written : \E wc \in written :
          /\ wp.dict = "payments" /\ wc.dict = "challans"
          /\ wp.key = wc.key
          /\ wp.page < wc.page
          /\ \E k \in 1..LastRows :
                /\ payments_dict[k].key = wp.key
                /\ LastRecord(k).TDSAmount # FNum(0)

====
